---- MODULE Spec2Model ----
(***************************************************************************)
(* Schema resolution and table conversion of the meds package.             *)
(*                                                                         *)
(*   CustomizableSchemaFntr.__call__       src/src/meds/utils.py           *)
(*   convert_and_validate_schema           src/src/meds/utils.py           *)
(*   _convert_and_validate_schema          src/src/meds/polars_support.py  *)
(*                                                                         *)
(* Every call is a pure function of its arguments: Init draws the          *)
(* arguments of one call from bounded sets and the actions run the call.   *)
(* A python dict is modelled by the sequence of its items in insertion     *)
(* order (mandatory_fields, optional_fields) or, where the order is never  *)
(* read (do_cast_types), by a function on its key set.  An exception is a  *)
(* result with status "raise" and the class of the exception in exc.       *)
(*                                                                         *)
(* Modelled as the function bodies read: the frames are polars frames      *)
(* whose values convert to the target types, and an arrow schema indexed   *)
(* by a column name gives that column's arrow type.                        *)
(***************************************************************************)
EXTENDS Naturals, Sequences, FiniteSets

VARIABLES call, pc, kw, inspected, frame, ret

vars == <<call, pc, kw, inspected, frame, ret>>

(***************************************************************************)
(* Bounds of the explored arguments.                                       *)
(***************************************************************************)
\* longest list of custom properties passed to a schema functor
MaxProps == 2
\* most columns of a source frame
MaxCols == 3
\* most columns of a source frame converted under a per-column dict policy
MaxDictCols == 2

(***************************************************************************)
(* Field names and types (shared_constants.py, data_schema.py).            *)
(***************************************************************************)
subject_id_field == "subject_id"
time_field == "time"
categorical_value_field == "categorical_value"
unexpected_col == "unexpected_col"

subject_id_dtype == "int64"
time_dtype == "timestamp[us]"
categorical_value_dtype == "string"

Field(n, t) == [name |-> n, type |-> t]

\* The data schema's dicts, cut to two mandatory fields and one optional one.
MANDATORY_FIELDS ==
    << Field(subject_id_field, subject_id_dtype), Field(time_field, time_dtype) >>

OPTIONAL_FIELDS == << Field(categorical_value_field, categorical_value_dtype) >>

\* CustomizableSchemaFntr.__init__: the functor keeps the two dicts.
SchemaFntr(m, o) == [cls |-> "CustomizableSchemaFntr", mandatory_fields |-> m,
                     optional_fields |-> o]

data_schema == SchemaFntr(MANDATORY_FIELDS, OPTIONAL_FIELDS)

\* A second functor: one mandatory field, so that "time" is a custom column.
short_schema == SchemaFntr(SubSeq(MANDATORY_FIELDS, 1, 1), OPTIONAL_FIELDS)

Fntrs == {data_schema, short_schema}

(***************************************************************************)
(* dict helpers.                                                           *)
(***************************************************************************)
Range(s) == {s[i] : i \in 1..Len(s)}

\* list(d.keys()), in insertion order
Keys(d) == [i \in 1..Len(d) |-> d[i].name]

\* set(d.keys())
KeySet(d) == {d[i].name : i \in 1..Len(d)}

\* k in d
InDict(k, d) == k \in KeySet(d)

\* d[k], for k in d
Lookup(d, k) == (CHOOSE f \in Range(d) : f.name = k).type

NoDup(s) == \A i, j \in 1..Len(s) : s[i] = s[j] => i = j

(***************************************************************************)
(* Results.                                                                *)
(***************************************************************************)
NoRet == [status |-> "none", exc |-> "", msg |-> "", errors |-> << >>, out |-> << >>]

Return(out) == [status |-> "ok", exc |-> "", msg |-> "", errors |-> << >>, out |-> out]

Raise(exc, msg, errors) ==
    [status |-> "raise", exc |-> exc, msg |-> msg, errors |-> errors, out |-> << >>]

(***************************************************************************)
(* CustomizableSchemaFntr.__call__                                         *)
(***************************************************************************)
\* The argument: None, a list of (name, type) pairs, or a dict.
NoneArg == [kind |-> "None", items |-> << >>]
ListArg(items) == [kind |-> "list", items |-> items]
DictArg(items) == [kind |-> "dict", items |-> items]

\* The loop over a list of pairs: the first raise, or NoRet when it ends.
RECURSIVE CheckLoop(_, _, _)
CheckLoop(self, props, i) ==
    IF i > Len(props) THEN NoRet
    ELSE LET field == props[i].name
             dtype == props[i].type
         IN  IF InDict(field, self.mandatory_fields)
             THEN Raise("ValueError", "conflicts with a mandatory field", << field >>)
             ELSE IF InDict(field, self.optional_fields)
                     /\ dtype # Lookup(self.optional_fields, field)
             \* the message reads the unbound name optional_fields
             THEN Raise("NameError", "optional_fields", << field >>)
             ELSE CheckLoop(self, props, i + 1)

\* The statement "for field, dtype in custom_properties", run before the
\* argument is normalised: None is not iterable, and a dict yields its keys,
\* strings that unpack to two names only when two characters long (no field
\* name here is).
CheckProperties(self, custom_properties) ==
    CASE custom_properties.kind = "None" ->
            Raise("TypeError", "not iterable", << >>)
      [] custom_properties.kind = "dict" ->
            IF custom_properties.items = << >> THEN NoRet
            ELSE Raise("ValueError", "unpack", << custom_properties.items[1].name >>)
      [] OTHER -> CheckLoop(self, custom_properties.items, 1)

\* pa.schema(list(self.mandatory_fields.items()) + custom_properties)
FntrCall(self, custom_properties) ==
    LET checked == CheckProperties(self, custom_properties)
    IN  IF checked.status = "raise" THEN checked
        ELSE Return(self.mandatory_fields \o custom_properties.items)

(***************************************************************************)
(* Arguments of the explored calls.                                        *)
(***************************************************************************)
PropNames == {subject_id_field, time_field, categorical_value_field, unexpected_col}
PropTypes == {"int64", "string"}
PropFields == {Field(n, t) : n \in PropNames, t \in PropTypes}

SeqsUpTo(S, n) == UNION {[1..k -> S] : k \in 0..n}

CustomProperties ==
    {NoneArg}
    \cup {ListArg(l) : l \in SeqsUpTo(PropFields, MaxProps)}
    \cup {DictArg(l) : l \in {s \in SeqsUpTo(PropFields, MaxProps) : NoDup(Keys(s))}}

ResolveCall(self, custom_properties) ==
    [op |-> "resolve", self |-> self, custom_properties |-> custom_properties]

(***************************************************************************)
(* Frames and arrow tables.                                                *)
(***************************************************************************)
\* A column: its name, its type, and its values: "source" for the values the
\* source frame holds (cast or not), "null" for a column of nulls.
Column(n, t, v) == [name |-> n, type |-> t, vals |-> v]

\* pl.from_arrow(...).collect_schema(): the polars type of an arrow type
FromArrow(t) ==
    CASE t = "int64" -> "Int64"
      [] t = "timestamp[us]" -> "Datetime(us)"
      [] t = "string" -> "String"
      [] t = "large_string" -> "String"
      [] t = "double" -> "Float64"

\* .to_arrow().schema: the arrow type of a polars type
ToArrow(t) ==
    CASE t = "Int64" -> "int64"
      [] t = "Datetime(us)" -> "timestamp[us]"
      [] t = "String" -> "large_string"
      [] t = "Float64" -> "double"

\* df.columns
Columns(df) == [i \in 1..Len(df) |-> df[i].name]

\* schema[col], for col in schema
TypeOf(df, col) == (CHOOSE c \in Range(df) : c.name = col).type

\* df.with_columns(pl.col(col).cast(dtype))
WithCast(df, col, dtype) ==
    [i \in 1..Len(df) |-> IF df[i].name = col THEN [df[i] EXCEPT !.type = dtype] ELSE df[i]]

\* WithNullColumn putting the new column before the frame's columns
WithNullColumnFirst(df, col, dtype) == << Column(col, dtype, "null") >> \o df

\* df.with_columns(pl.lit(None, dtype=dtype).alias(col)), col not in df:
\* the new column goes after the frame's columns
WithNullColumn(df, col, dtype) == Append(df, Column(col, dtype, "null"))

\* Select with the frame left in its order
SelectNoReorder(df, names) == df

\* df.select(names)
Select(df, names) ==
    [i \in 1..Len(names) |-> CHOOSE c \in Range(df) : c.name = names[i]]

(***************************************************************************)
(* _convert_and_validate_schema (polars_support.py)                        *)
(***************************************************************************)
Err(kind, cols, expected, actual) ==
    [kind |-> kind, cols |-> cols, expected |-> expected, actual |-> actual]

OrderErr(expected, actual) ==
    [kind |-> "order", expected_order |-> expected, actual_order |-> actual]

\* The state of the two validation loops: the frame, the errors, and the
\* exception that ended the loop, if any.
Pass(df, errors, raised) == [df |-> df, errors |-> errors, raised |-> raised]

\* CheckType reading the dict's truth ("if do_cast_types:") for the
\* column's entry
CheckTypeAnyPolicy(st, schema, col, target_dtype, do_cast_types, kind) ==
    IF target_dtype = TypeOf(schema, col) THEN st
    ELSE IF DOMAIN do_cast_types # {}
    THEN Pass(WithCast(st.df, col, target_dtype), st.errors, st.raised)
    ELSE Pass(st.df,
              Append(st.errors, Err(kind, << col >>, target_dtype, TypeOf(schema, col))),
              st.raised)

\* One present column of a loop: cast it, or record its type error.
CheckType(st, schema, col, target_dtype, do_cast_types, kind) ==
    IF target_dtype = TypeOf(schema, col) THEN st
    ELSE IF col \notin DOMAIN do_cast_types
    THEN Pass(st.df, st.errors, Raise("KeyError", col, << >>))
    ELSE IF do_cast_types[col]
    THEN Pass(WithCast(st.df, col, target_dtype), st.errors, st.raised)
    ELSE Pass(st.df,
              Append(st.errors, Err(kind, << col >>, target_dtype, TypeOf(schema, col))),
              st.raised)

\* MandatoryLoop with the branch that adds a missing field left out
RECURSIVE MandatoryLoopNoAdd(_, _, _, _)
MandatoryLoopNoAdd(st, schema, k, i) ==
    IF i > Len(k.mandatory_columns) \/ st.raised.status = "raise" THEN st
    ELSE LET col == k.mandatory_columns[i].name
             target_dtype == FromArrow(k.mandatory_columns[i].type)
             nxt == IF col \in Range(Columns(schema))
                    THEN CheckType(st, schema, col, target_dtype, k.do_cast_types,
                                   "mandatory type")
                    ELSE Pass(st.df,
                              Append(st.errors, Err("missing", << col >>, target_dtype, "")),
                              st.raised)
         IN  MandatoryLoopNoAdd(nxt, schema, k, i + 1)

\* for col in mandatory_columns: ...
RECURSIVE MandatoryLoop(_, _, _, _)
MandatoryLoop(st, schema, k, i) ==
    IF i > Len(k.mandatory_columns) \/ st.raised.status = "raise" THEN st
    ELSE LET col == k.mandatory_columns[i].name
             target_dtype == FromArrow(k.mandatory_columns[i].type)
             nxt == IF col \in Range(Columns(schema))
                    THEN CheckType(st, schema, col, target_dtype, k.do_cast_types,
                                   "mandatory type")
                    ELSE IF k.do_add_missing_mandatory_fields
                    THEN Pass(WithNullColumn(st.df, col, target_dtype), st.errors, st.raised)
                    ELSE Pass(st.df,
                              Append(st.errors, Err("missing", << col >>, target_dtype, "")),
                              st.raised)
         IN  MandatoryLoop(nxt, schema, k, i + 1)

\* for col in optional_columns: ...
RECURSIVE OptionalLoop(_, _, _, _)
OptionalLoop(st, schema, k, i) ==
    IF i > Len(k.optional_columns) \/ st.raised.status = "raise" THEN st
    ELSE LET col == k.optional_columns[i].name
             target_dtype == FromArrow(k.optional_columns[i].type)
             nxt == IF col \notin Range(Columns(schema)) THEN st
                    ELSE CheckType(st, schema, col, target_dtype, k.do_cast_types,
                                   "optional type")
         IN  OptionalLoop(nxt, schema, k, i + 1)

\* [col for col in schema if col not in type_specific_columns]
AdditionalCols(schema, k) ==
    LET type_specific_columns == KeySet(k.mandatory_columns) \cup KeySet(k.optional_columns)
        Extra(col) == col \notin type_specific_columns
    IN  SelectSeq(Columns(schema), Extra)

\* errors, after the two loops and the check of the additional columns
Validate(schema, k) ==
    LET st == OptionalLoop(MandatoryLoop(Pass(schema, << >>, NoRet), schema, k, 1),
                           schema, k, 1)
        additional_cols == AdditionalCols(schema, k)
    IN  IF st.raised.status = "raise" THEN st
        ELSE IF additional_cols # << >> /\ ~k.do_allow_extra_columns
        THEN Pass(st.df, Append(st.errors, Err("unexpected", additional_cols, "", "")),
                  st.raised)
        ELSE st

\* optional_properties: the source's columns that are not mandatory, in
\* source order, an optional one at its declared type, another at the arrow
\* type of the frame's column
RECURSIVE OptionalProperties(_, _, _, _)
OptionalProperties(schema, df, k, i) ==
    IF i > Len(schema) THEN << >>
    ELSE LET col == schema[i].name
             rest == OptionalProperties(schema, df, k, i + 1)
         IN  IF InDict(col, k.mandatory_columns) THEN rest
             ELSE IF InDict(col, k.optional_columns)
             THEN << Field(col, Lookup(k.optional_columns, col)) >> \o rest
             ELSE << Field(col, ToArrow(TypeOf(df, col))) >> \o rest

\* pa.schema(list(mandatory_columns.items()) + optional_properties):
\* schema_validator is None, as convert_and_validate_schema leaves it
ValidatedSchema(schema, df, k) ==
    k.mandatory_columns \o OptionalProperties(schema, df, k, 1)

\* CastTable without the cast to the validated schema
CastTableNoCast(df, validated_schema) ==
    Return([i \in 1..Len(df) |-> Column(df[i].name, ToArrow(df[i].type), df[i].vals)])

\* df.collect().to_arrow().cast(validated_schema): the target's names must
\* be the table's names, and each column takes the target's type
CastTable(df, validated_schema) ==
    IF Columns(df) # Keys(validated_schema)
    THEN Raise("ValueError", "cast: field names differ", << >>)
    ELSE Return([i \in 1..Len(df) |->
                    Column(df[i].name, validated_schema[i].type, df[i].vals)])

\* The steps after the validation
Finish(schema, df, k) ==
    LET validated_schema == ValidatedSchema(schema, df, k)
        schema_order == Keys(validated_schema)
        extra_cols == Range(Columns(df)) \ Range(schema_order)
    IN  IF extra_cols # {}
        THEN Raise("ValueError", "unexpected columns", << >>)
        ELSE IF schema_order # Columns(df)
        THEN IF k.do_reorder_columns
             THEN CastTable(Select(df, schema_order), validated_schema)
             ELSE Raise("ValueError", "order", << OrderErr(schema_order, Columns(df)) >>)
        ELSE CastTable(df, validated_schema)

\* ConvertPolars raising on the first error recorded
ConvertPolarsFirstError(schema, k) ==
    LET st == Validate(schema, k)
    IN  IF st.raised.status = "raise" THEN st.raised
        ELSE IF st.errors # << >> THEN Raise("ValueError", "report", << st.errors[1] >>)
        ELSE Finish(schema, st.df, k)

\* The whole function: schema is the source frame's schema
ConvertPolars(schema, k) ==
    LET st == Validate(schema, k)
    IN  IF st.raised.status = "raise" THEN st.raised
        ELSE IF st.errors # << >> THEN Raise("ValueError", "report", st.errors)
        ELSE Finish(schema, st.df, k)

(***************************************************************************)
(* convert_and_validate_schema (utils.py)                                  *)
(***************************************************************************)
\* do_cast_types: a bool, a dict, or something else
BoolPolicy(b) == [kind |-> "bool", val |-> b, map |-> << >>]
DictPolicy(m) == [kind |-> "dict", val |-> FALSE, map |-> m]
OtherPolicy == [kind |-> "other", val |-> FALSE, map |-> << >>]

\* pa.Schema
PaSchema(fields) == [cls |-> "pa.Schema", fields |-> fields]
OtherSchema == [cls |-> "other"]

\* The frame argument: a polars frame or something that is no frame
PolarsFrame(cols) == [cls |-> "polars", cols |-> cols]
OtherFrame == [cls |-> "other", cols |-> << >>]

Kwargs(m, o, allow, cast, add, reorder) ==
    [mandatory_columns |-> m, optional_columns |-> o, do_allow_extra_columns |-> allow,
     do_cast_types |-> cast, do_add_missing_mandatory_fields |-> add,
     do_reorder_columns |-> reorder]

\* MatchSchema letting extra columns pass under a pa.Schema too
MatchSchemaAllowAll(schema) ==
    CASE schema.cls = "CustomizableSchemaFntr" ->
            [ok |-> TRUE, mandatory_columns |-> schema.mandatory_fields,
             optional_columns |-> schema.optional_fields, do_allow_extra_columns |-> TRUE]
      [] schema.cls = "pa.Schema" ->
            [ok |-> TRUE, mandatory_columns |-> schema.fields,
             optional_columns |-> << >>, do_allow_extra_columns |-> TRUE]
      [] OTHER ->
            [ok |-> FALSE, mandatory_columns |-> << >>,
             optional_columns |-> << >>, do_allow_extra_columns |-> FALSE]

\* match schema: the columns of the schema and whether extra columns pass
MatchSchema(schema) ==
    CASE schema.cls = "CustomizableSchemaFntr" ->
            [ok |-> TRUE, mandatory_columns |-> schema.mandatory_fields,
             optional_columns |-> schema.optional_fields, do_allow_extra_columns |-> TRUE]
      [] schema.cls = "pa.Schema" ->
            [ok |-> TRUE, mandatory_columns |-> schema.fields,
             optional_columns |-> << >>, do_allow_extra_columns |-> FALSE]
      [] OTHER ->
            [ok |-> FALSE, mandatory_columns |-> << >>,
             optional_columns |-> << >>, do_allow_extra_columns |-> FALSE]

IsBool(v) == v \in {"True", "False"}

\* The if/elif chain on do_cast_types: the raise, or NoRet
CheckCastTypes(do_cast_types, all_columns) ==
    IF do_cast_types.kind = "bool" THEN NoRet
    ELSE IF do_cast_types.kind # "dict"
    THEN Raise("ValueError", "do_cast_types must be a bool or a dict", << >>)
    ELSE IF ~(\A col \in DOMAIN do_cast_types.map : col \in all_columns)
    THEN Raise("ValueError", "do_cast_types must have a key for every column", << >>)
    ELSE IF ~(\A col \in DOMAIN do_cast_types.map : IsBool(do_cast_types.map[col]))
    THEN Raise("ValueError", "do_cast_types values must be bools", << >>)
    ELSE NoRet

\* do_cast_types as the validator receives it
CastDict(do_cast_types, all_columns) ==
    IF do_cast_types.kind = "bool"
    THEN [col \in all_columns |-> do_cast_types.val]
    ELSE [col \in DOMAIN do_cast_types.map |-> do_cast_types.map[col] = "True"]

\* The body up to the dispatch on the frame's type: the raise, or NoRet
CheckArguments(c) ==
    LET m == MatchSchema(c.schema)
        all_columns == KeySet(m.mandatory_columns) \cup KeySet(m.optional_columns)
        checked == CheckCastTypes(c.do_cast_types, all_columns)
    IN  IF c.do_allow_extra_columns # "absent"
        THEN Raise("TypeError", "unexpected keyword argument", << >>)
        ELSE IF ~m.ok
        THEN Raise("ValueError", "Schema must be a CustomizableSchemaFntr or a pa.Schema",
                   << >>)
        ELSE IF checked.status = "raise" THEN checked
        ELSE IF c.df.cls # "polars"
        THEN Raise("ValueError", "DataFrame must be one of the allowed types", << >>)
        ELSE NoRet

\* kwargs
ConvertKwargs(c) ==
    LET m == MatchSchema(c.schema)
        all_columns == KeySet(m.mandatory_columns) \cup KeySet(m.optional_columns)
    IN  Kwargs(m.mandatory_columns, m.optional_columns, m.do_allow_extra_columns,
               CastDict(c.do_cast_types, all_columns),
               c.do_add_missing_mandatory_fields, c.do_reorder_columns)

(***************************************************************************)
(* Arguments of the explored conversions.                                  *)
(***************************************************************************)
ColNames == PropNames

\* The polars type that needs no cast under the data schema, per column
NaturalType(n) ==
    CASE n = subject_id_field -> "Int64"
      [] n = time_field -> "Datetime(us)"
      [] OTHER -> "String"

SourceColumns == {Column(n, t, "source") : n \in ColNames, t \in {"Int64", "Datetime(us)", "String", "Float64"}}

SourceCols == {c \in SourceColumns : c.type \in {NaturalType(c.name), "Float64"}}

Frames(n) == {f \in SeqsUpTo(SourceCols, n) : NoDup(Columns(f))}

Schemas == Fntrs \cup {PaSchema(MANDATORY_FIELDS), OtherSchema}

\* Every dict from column names to bools, and the dicts of one non-bool
DictPolicies ==
    {DictPolicy(m) : m \in UNION {[K -> {"True", "False"}] : K \in SUBSET ColNames}}
    \cup {DictPolicy([n \in K |-> "str"]) : K \in (SUBSET ColNames) \ {{}}}

SimplePolicies == {BoolPolicy(TRUE), BoolPolicy(FALSE), OtherPolicy}

ConvertCall(df, schema, cast, add, reorder, allow) ==
    [op |-> "convert", df |-> df, schema |-> schema, do_cast_types |-> cast,
     do_add_missing_mandatory_fields |-> add, do_reorder_columns |-> reorder,
     do_allow_extra_columns |-> allow]

PolarsCall(df, kwargs) == [op |-> "polars", df |-> df, kwargs |-> kwargs]

\* Direct calls of the polars validator take the columns of a schema
ColumnPairs ==
    {<<s.mandatory_fields, s.optional_fields>> : s \in Fntrs}
    \cup {<<MANDATORY_FIELDS, << >> >>}

UniformDict(cp, b) == [col \in KeySet(cp[1]) \cup KeySet(cp[2]) |-> b]

BoolDicts == UNION {[K -> BOOLEAN] : K \in SUBSET ColNames}

NoKw == [unset |-> TRUE]

InitResolve ==
    \E s \in Fntrs, c \in CustomProperties : call = ResolveCall(s, c)

\* do_allow_extra_columns is no keyword of the signature: "absent" unless
\* the caller passes it all the same
InitConvert ==
    \/ \E f \in Frames(MaxCols), s \in Schemas, c \in SimplePolicies,
          a \in BOOLEAN, r \in BOOLEAN, x \in {"absent", "True", "False"} :
            call = ConvertCall(PolarsFrame(f), s, c, a, r, x)
    \/ \E f \in Frames(MaxDictCols), s \in Schemas, c \in DictPolicies,
          a \in BOOLEAN, r \in BOOLEAN :
            call = ConvertCall(PolarsFrame(f), s, c, a, r, "absent")
    \/ \E s \in Schemas, c \in SimplePolicies :
            call = ConvertCall(OtherFrame, s, c, TRUE, TRUE, "absent")

\* either value of do_allow_extra_columns, and a dict of bools
InitPolars ==
    \/ \E f \in Frames(MaxCols), cp \in ColumnPairs, x \in BOOLEAN, b \in BOOLEAN,
          a \in BOOLEAN, r \in BOOLEAN :
            call = PolarsCall(PolarsFrame(f), Kwargs(cp[1], cp[2], x, UniformDict(cp, b), a, r))
    \/ \E f \in Frames(MaxDictCols), cp \in ColumnPairs, x \in BOOLEAN, d \in BoolDicts,
          a \in BOOLEAN, r \in BOOLEAN :
            call = PolarsCall(PolarsFrame(f), Kwargs(cp[1], cp[2], x, d, a, r))

Init ==
    /\ InitResolve \/ InitConvert \/ InitPolars
    /\ pc = "call"
    /\ kw = NoKw
    /\ inspected = FALSE
    /\ frame = << >>
    /\ ret = NoRet

\* CustomizableSchemaFntr.__call__
Resolve ==
    /\ pc = "call"
    /\ call.op = "resolve"
    /\ ret' = FntrCall(call.self, call.custom_properties)
    /\ pc' = "done"
    /\ UNCHANGED <<call, kw, inspected, frame>>

\* convert_and_validate_schema up to the call of the validator: it raises,
\* or it hands the frame and the kwargs to the polars validator
Convert ==
    /\ pc = "call"
    /\ call.op = "convert"
    /\ LET checked == CheckArguments(call)
       IN  IF checked.status = "raise"
           THEN /\ ret' = checked
                /\ pc' = "done"
                /\ kw' = kw
           ELSE /\ kw' = ConvertKwargs(call)
                /\ pc' = "validator"
                /\ ret' = ret
    /\ UNCHANGED <<call, inspected, frame>>

\* A direct call of _convert_and_validate_schema
CallPolars ==
    /\ pc = "call"
    /\ call.op = "polars"
    /\ kw' = call.kwargs
    /\ pc' = "validator"
    /\ UNCHANGED <<call, inspected, frame, ret>>

\* _convert_and_validate_schema: it reads the frame's schema and returns
\* the table or raises; frame is its df as the two loops leave it
Validator ==
    /\ pc = "validator"
    /\ inspected' = TRUE
    /\ frame' = Validate(call.df.cols, kw).df
    /\ ret' = ConvertPolars(call.df.cols, kw)
    /\ pc' = "done"
    /\ UNCHANGED <<call, kw>>

Next == Resolve \/ Convert \/ CallPolars \/ Validator

Spec == Init /\ [][Next]_vars

(***************************************************************************)
(* Properties of CustomizableSchemaFntr.__call__                           *)
(***************************************************************************)
Resolved == pc = "done" /\ call.op = "resolve"

ResolvedList == Resolved /\ call.custom_properties.kind = "list"

\* The custom property is an optional field given at another type
OptionalMismatch(self, p) ==
    InDict(p.name, self.optional_fields) /\ p.type # Lookup(self.optional_fields, p.name)

\* The custom property is an optional field given at its declared type
OptionalMatch(self, p) ==
    InDict(p.name, self.optional_fields) /\ p.type = Lookup(self.optional_fields, p.name)

\* C1: a schema functor called with None returns exactly its mandatory
\* fields, in declared order, and raises nothing.
C1_NoneIsEmpty ==
    (Resolved /\ call.custom_properties.kind = "None")
        => (ret.status = "ok" /\ ret.out = call.self.mandatory_fields)

\* C2: a list of custom properties one of which has a mandatory field's name
\* makes the call raise the conflict error (ValueError) and return no schema,
\* whatever the types; a list of optional fields at their declared types is
\* accepted as it is.
C2_MandatoryConflict ==
    ResolvedList =>
        LET self == call.self
            props == call.custom_properties.items
        IN  /\ (\E i \in 1..Len(props) : InDict(props[i].name, self.mandatory_fields))
                 => (ret.status = "raise" /\ ret.exc = "ValueError" /\ ret.out = << >>)
            /\ (\A i \in 1..Len(props) : OptionalMatch(self, props[i]))
                 => (ret.status = "ok" /\ ret.out = self.mandatory_fields \o props)

\* C3: a list of custom properties one of which is an optional field at
\* another type makes the call raise the conflict error (ValueError), the
\* error of a collision with a mandatory field, and no other exception.
C3_OptionalConflict ==
    (ResolvedList /\ \E i \in 1..Len(call.custom_properties.items) :
                        OptionalMismatch(call.self, call.custom_properties.items[i]))
        => (ret.status = "raise" /\ ret.exc = "ValueError")

\* C4: a schema returned for a list of custom properties has no name twice,
\* starts with the mandatory fields in declared order, goes on with the
\* custom properties in input order, and has no other field.
C4_ResolvedSchema ==
    (ResolvedList /\ ret.status = "ok") =>
        LET self == call.self
            props == call.custom_properties.items
            m == Len(self.mandatory_fields)
        IN  /\ NoDup(Keys(ret.out))
            /\ SubSeq(ret.out, 1, m) = self.mandatory_fields
            /\ \A i \in 1..(Len(ret.out) - m) : ret.out[m + i] \in Range(props)
            /\ \A i, j \in 1..(Len(ret.out) - m) :
                  i < j => \E a, b \in 1..Len(props) :
                              a < b /\ props[a] = ret.out[m + i] /\ props[b] = ret.out[m + j]
            /\ Range(Keys(ret.out)) =
                  KeySet(self.mandatory_fields) \cup Range(Keys(props))

(***************************************************************************)
(* Properties of the conversion.                                           *)
(***************************************************************************)
\* The validator ran to its end on the frame of the call
Converted == pc = "done" /\ inspected

SrcNames(src) == {src[i].name : i \in 1..Len(src)}

FieldNames(k) == KeySet(k.mandatory_columns) \cup KeySet(k.optional_columns)

Declared(k, f) ==
    IF InDict(f, k.mandatory_columns) THEN Lookup(k.mandatory_columns, f)
    ELSE Lookup(k.optional_columns, f)

\* The policy has an entry for every mandatory and optional field
PolicyTotal(k) == FieldNames(k) \subseteq DOMAIN k.do_cast_types

MissingMandatory(src, k) == KeySet(k.mandatory_columns) \ SrcNames(src)

AbsentOptional(src, k) == KeySet(k.optional_columns) \ SrcNames(src)

\* Present fields whose source type is not the polars type of the declared one
Mistyped(src, k) ==
    {f \in FieldNames(k) \cap SrcNames(src) :
        (CHOOSE c \in Range(src) : c.name = f).type # FromArrow(Declared(k, f))}

Refused(src, k) == {f \in Mistyped(src, k) : ~k.do_cast_types[f]}

ExtraNames(src, k) == SrcNames(src) \ FieldNames(k)

\* The errors one call has to report
ErrorCount(src, k) ==
    (IF k.do_add_missing_mandatory_fields THEN 0 ELSE Cardinality(MissingMandatory(src, k)))
    + Cardinality(Refused(src, k))
    + (IF ExtraNames(src, k) # {} /\ ~k.do_allow_extra_columns THEN 1 ELSE 0)

\* names is a subsequence of the source's column names
InSourceOrder(names, src) ==
    \A i, j \in 1..Len(names) :
        i < j => \E a, b \in 1..Len(src) : a < b /\ src[a].name = names[i] /\ src[b].name = names[j]

\* An error of the report names column f
Names(e, f) == \E i \in 1..Len(e.cols) : e.cols[i] = f

ConfigMessages ==
    {"do_cast_types must be a bool or a dict",
     "do_cast_types must have a key for every column",
     "do_cast_types values must be bools"}

ConfigError == ret.status = "raise" /\ ret.exc = "ValueError" /\ ret.msg \in ConfigMessages

\* C5: a dict do_cast_types that lacks an entry for a mandatory, optional or
\* extra column of the conversion makes convert raise a configuration error
\* before the frame is read; a dict with a bool for each of them is accepted.
C5_DictPolicyComplete ==
    (call.op = "convert" /\ pc # "call" /\ call.do_allow_extra_columns = "absent"
        /\ call.schema.cls # "other" /\ call.df.cls = "polars"
        /\ call.do_cast_types.kind = "dict") =>
        LET m == MatchSchema(call.schema)
            universe == KeySet(m.mandatory_columns) \cup KeySet(m.optional_columns)
                            \cup SrcNames(call.df.cols)
            policy == call.do_cast_types.map
        IN  /\ ~(universe \subseteq DOMAIN policy)
                 => (pc = "done" /\ ~inspected /\ ConfigError)
            /\ (universe \subseteq DOMAIN policy /\ \A c \in universe : IsBool(policy[c]))
                 => ~ConfigError

\* C6: for a mandatory field f absent from the source (the policy having an
\* entry for every field): with do_add_missing_mandatory_fields no error
\* names f, the call fails only by its report of other errors or by the order
\* check, and a returned table has column f at the declared type, all null;
\* without it the call raises the report, with a missing-column error naming
\* f.  A returned table has no optional field that the source has not.
C6_MissingMandatory ==
    (Converted /\ PolicyTotal(kw)) =>
        LET src == call.df.cols
        IN  /\ \A f \in MissingMandatory(src, kw) :
                 IF kw.do_add_missing_mandatory_fields
                 THEN /\ \A i \in 1..Len(ret.errors) :
                            ret.errors[i].kind # "order" => ~Names(ret.errors[i], f)
                      /\ ret.status = "raise" => ret.msg \in {"report", "order"}
                      /\ ret.status = "ok" =>
                            \E i \in 1..Len(ret.out) :
                                ret.out[i] = Column(f, Declared(kw, f), "null")
                 ELSE /\ ret.status = "raise" /\ ret.exc = "ValueError" /\ ret.msg = "report"
                      /\ \E i \in 1..Len(ret.errors) :
                            ret.errors[i] =
                                Err("missing", << f >>, FromArrow(Declared(kw, f)), "")
            /\ \A o \in AbsentOptional(src, kw) :
                 \A i \in 1..Len(ret.out) : ret.out[i].name # o

C6_Witness ==
    /\ Converted /\ PolicyTotal(kw)
    /\ kw.do_add_missing_mandatory_fields
    /\ MissingMandatory(call.df.cols, kw) = {time_field}
    /\ AbsentOptional(call.df.cols, kw) # {}
    /\ ret.status = "ok"
    /\ ret.out[Len(ret.out)] = Column(time_field, time_dtype, "null")

\* C7 as stated: do_allow_extra_columns is the caller's to set in convert:
\* on a source with extra columns and nothing else to fail on, passing False
\* raises one unexpected-columns error naming all of them, and passing True
\* returns the table with them.
C7_CallerSetsAllowExtra ==
    (pc = "done" /\ call.op = "convert" /\ call.do_allow_extra_columns # "absent"
        /\ call.df.cls = "polars" /\ call.schema.cls # "other"
        /\ call.do_cast_types = BoolPolicy(TRUE)
        /\ call.do_add_missing_mandatory_fields /\ call.do_reorder_columns
        /\ ExtraNames(call.df.cols, ConvertKwargs(call)) # {}) =>
        IF call.do_allow_extra_columns = "False"
        THEN /\ ret.status = "raise" /\ ret.msg = "report"
             /\ Len(ret.errors) = 1 /\ ret.errors[1].kind = "unexpected"
        ELSE /\ ret.status = "ok"
             /\ ExtraNames(call.df.cols, ConvertKwargs(call)) \subseteq SrcNames(ret.out)

\* C7, amended: do_allow_extra_columns is no argument of convert (passing it
\* is a TypeError, the frame unread); convert sets it from the schema's kind,
\* True for a schema functor and False for a pa.Schema, and only the polars
\* validator takes it as a parameter.  On a source with columns outside
\* mandatory and optional (the policy having an entry for every field): when
\* False the call raises the report, with exactly one unexpected-columns
\* error naming all of them in source order; when True no such error is
\* recorded, the call fails only by its report of other errors or by the
\* order check, and a returned table has them after the mandatory fields at
\* the arrow types of the source's columns.
C7_AllowExtraBySchemaKind ==
    /\ (pc = "done" /\ call.op = "convert" /\ call.do_allow_extra_columns # "absent")
         => (ret.status = "raise" /\ ret.exc = "TypeError" /\ ~inspected)
    /\ (call.op = "convert" /\ (pc = "validator" \/ Converted))
         => (kw.do_allow_extra_columns = (call.schema.cls = "CustomizableSchemaFntr"))
    /\ (Converted /\ PolicyTotal(kw) /\ ExtraNames(call.df.cols, kw) # {}) =>
         LET src == call.df.cols
             unexpected == {i \in 1..Len(ret.errors) : ret.errors[i].kind = "unexpected"}
         IN  IF ~kw.do_allow_extra_columns
             THEN /\ ret.status = "raise" /\ ret.exc = "ValueError" /\ ret.msg = "report"
                  /\ Cardinality(unexpected) = 1
                  /\ \A i \in unexpected :
                        /\ Range(ret.errors[i].cols) = ExtraNames(src, kw)
                        /\ Len(ret.errors[i].cols) = Cardinality(ExtraNames(src, kw))
                        /\ InSourceOrder(ret.errors[i].cols, src)
             ELSE /\ unexpected = {}
                  /\ ret.status = "raise" => ret.msg \in {"report", "order"}
                  /\ ret.status = "ok" =>
                        \A c \in Range(src) :
                            c.name \in ExtraNames(src, kw) =>
                                \E i \in (Len(kw.mandatory_columns) + 1)..Len(ret.out) :
                                    ret.out[i] = Column(c.name, ToArrow(c.type), "source")

C7_Witness ==
    /\ Converted /\ call.op = "convert"
    /\ call.schema.cls = "pa.Schema"
    /\ Cardinality(ExtraNames(call.df.cols, kw)) = 2
    /\ ret.msg = "report"
    /\ Len(ret.errors) = 1
    /\ Len(ret.errors[1].cols) = 2

\* The resolved order: the mandatory fields, then the source's other columns
ResolvedOrder(src, k) ==
    LET NotMandatory(c) == ~InDict(c, k.mandatory_columns)
    IN  Keys(k.mandatory_columns) \o SelectSeq(Columns(src), NotMandatory)

\* The frame's order at the order check: the source's columns, then the
\* mandatory fields the source has not, in declared order
FrameOrder(src, k) ==
    LET Missing(c) == c \notin SrcNames(src)
    IN  Columns(src) \o SelectSeq(Keys(k.mandatory_columns), Missing)

\* The conversion has no validation error to report
NoValidationError == Converted /\ PolicyTotal(kw) /\ ErrorCount(call.df.cols, kw) = 0

OrderRaise(expected, actual) ==
    ret = Raise("ValueError", "order", << OrderErr(expected, actual) >>)

\* C8 as stated: with no validation error, a source whose column order is not
\* the resolved order is refused with the order error when
\* do_reorder_columns is False and returned in the resolved order when True;
\* a source in the resolved order is returned either way.
C8_SourceOrder ==
    (NoValidationError /\ call.df.cols # << >>) =>
        LET src == call.df.cols
            expected == ResolvedOrder(src, kw)
        IN  IF Columns(src) = expected THEN ret.status = "ok"
            ELSE IF kw.do_reorder_columns
            THEN ret.status = "ok" /\ Columns(ret.out) = expected
            ELSE ret.status = "raise" /\ ret.msg = "order"

\* C8, amended: with no validation error, the order that is checked is the
\* order of the frame after the missing mandatory fields were appended to
\* it: when it is not the resolved order the call raises the order error
\* naming the resolved and the frame's order if do_reorder_columns is False,
\* and returns the table in the resolved order if True; when it is the
\* resolved order the table is returned either way.
C8_FrameOrder ==
    NoValidationError =>
        LET src == call.df.cols
            expected == ResolvedOrder(src, kw)
            actual == FrameOrder(src, kw)
        IN  IF actual = expected THEN ret.status = "ok" /\ Columns(ret.out) = expected
            ELSE IF kw.do_reorder_columns
            THEN ret.status = "ok" /\ Columns(ret.out) = expected
            ELSE OrderRaise(expected, actual)

C8_Witness ==
    /\ NoValidationError
    /\ ~kw.do_reorder_columns
    /\ MissingMandatory(call.df.cols, kw) = {}
    /\ Len(call.df.cols) = 3
    /\ Columns(call.df.cols) # ResolvedOrder(call.df.cols, kw)
    /\ ret.status = "raise" /\ ret.msg = "order"

C10_OutputSchema ==
    (Converted /\ ret.status = "ok") =>
        LET src == call.df.cols
            m == Len(kw.mandatory_columns)
            NotMandatory(c) == ~InDict(c.name, kw.mandatory_columns)
            others == SelectSeq(src, NotMandatory)
        IN  /\ Len(ret.out) = m + Len(others)
            /\ \A i \in 1..m :
                  /\ ret.out[i].name = kw.mandatory_columns[i].name
                  /\ ret.out[i].type = kw.mandatory_columns[i].type
            /\ \A i \in 1..Len(others) :
                  /\ ret.out[m + i].name = others[i].name
                  /\ ret.out[m + i].type =
                        IF InDict(others[i].name, kw.optional_columns)
                        THEN Lookup(kw.optional_columns, others[i].name)
                        ELSE ToArrow(others[i].type)
            /\ NoDup(Columns(ret.out))

C10_Witness ==
    /\ Converted /\ ret.status = "ok"
    /\ Len(kw.mandatory_columns) = 1
    /\ Len(ret.out) = 3
    /\ ret.out[2] = Column(unexpected_col, "large_string", "source")
    /\ ret.out[3] = Column(categorical_value_field, "string", "source")
    /\ call.df.cols[1].name = unexpected_col

\* The column named f of a frame that has one
ColumnOf(df, f) == CHOOSE c \in Range(df) : c.name = f

\* The type errors of the result that name column f
TypeErrors(f) ==
    {i \in 1..Len(ret.errors) :
        /\ ret.errors[i].kind \in {"mandatory type", "optional type"}
        /\ ret.errors[i].cols = << f >>}

\* C11: for a mandatory or optional field present in the source (each
\* mistyped one having an entry in the policy): at another type than the
\* resolved one it is cast to the resolved type with no error if its policy
\* is true, and left as it is with exactly one type error, naming the
\* column, the expected and the actual type, in the raised report if its
\* policy is false; at the resolved type it is neither cast nor reported.
C11_CastOrReport ==
    (Converted /\ Mistyped(call.df.cols, kw) \subseteq DOMAIN kw.do_cast_types) =>
        LET src == call.df.cols
        IN  \A f \in FieldNames(kw) \cap SrcNames(src) :
                LET actual == ColumnOf(src, f).type
                    expected == FromArrow(Declared(kw, f))
                    kind == IF InDict(f, kw.mandatory_columns) THEN "mandatory type"
                            ELSE "optional type"
                IN  IF actual = expected
                    THEN ColumnOf(frame, f) = ColumnOf(src, f) /\ TypeErrors(f) = {}
                    ELSE IF kw.do_cast_types[f]
                    THEN /\ ColumnOf(frame, f) = Column(f, expected, "source")
                         /\ TypeErrors(f) = {}
                    ELSE /\ ColumnOf(frame, f) = ColumnOf(src, f)
                         /\ ret.status = "raise" /\ ret.msg = "report"
                         /\ Cardinality(TypeErrors(f)) = 1
                         /\ \A i \in TypeErrors(f) :
                               ret.errors[i] = Err(kind, << f >>, expected, actual)

\* two mistyped fields under a dict: one cast, the other reported
C11_Witness ==
    /\ Converted /\ call.op = "convert" /\ call.do_cast_types.kind = "dict"
    /\ Mistyped(call.df.cols, kw) = {subject_id_field, categorical_value_field}
    /\ Mistyped(call.df.cols, kw) \subseteq DOMAIN kw.do_cast_types
    /\ kw.do_cast_types[subject_id_field] /\ ~kw.do_cast_types[categorical_value_field]
    /\ ColumnOf(frame, subject_id_field).type = "Int64"
    /\ ColumnOf(frame, categorical_value_field).type = "Float64"
    /\ Len(ret.errors) = 1
    /\ ret.errors[1] = Err("optional type", << categorical_value_field >>, "String", "Float64")

\* The source is a proper prefix of the mandatory fields: the fields it
\* misses are the last ones of the resolved schema, and it has no optional
\* or unexpected column
MissingIsSuffix(src, k) ==
    \E p \in 0..(Len(k.mandatory_columns) - 1) :
        Columns(src) = SubSeq(Keys(k.mandatory_columns), 1, p)

\* C12: with no validation error, do_add_missing_mandatory_fields True and
\* do_reorder_columns False, on a source that misses a mandatory field: the
\* frame at the order check is the source's columns followed by the missing
\* fields as null columns of their declared types, and the call returns the
\* table exactly when the missing fields are the last ones of the resolved
\* schema and the source has no optional or unexpected column; in every
\* other case it raises the order error naming the resolved order and the
\* frame's.
C12_AddedColumnLast ==
    ( /\ NoValidationError
      /\ kw.do_add_missing_mandatory_fields /\ ~kw.do_reorder_columns
      /\ MissingMandatory(call.df.cols, kw) # {} ) =>
        LET src == call.df.cols
            missing == MissingMandatory(src, kw)
        IN  /\ Columns(frame) = FrameOrder(src, kw)
            /\ SubSeq(Columns(frame), 1, Len(src)) = Columns(src)
            /\ \A f \in missing :
                   ColumnOf(frame, f) = Column(f, FromArrow(Declared(kw, f)), "null")
            /\ IF MissingIsSuffix(src, kw)
               THEN ret.status = "ok" /\ Columns(ret.out) = ResolvedOrder(src, kw)
               ELSE OrderRaise(ResolvedOrder(src, kw), FrameOrder(src, kw))

\* a source holding only the second mandatory field: the first is appended
\* after it and the order check refuses the frame
C12_Witness ==
    /\ NoValidationError
    /\ kw.do_add_missing_mandatory_fields /\ ~kw.do_reorder_columns
    /\ Keys(kw.mandatory_columns) = << subject_id_field, time_field >>
    /\ Columns(call.df.cols) = << time_field >>
    /\ Columns(frame) = << time_field, subject_id_field >>
    /\ OrderRaise(<< subject_id_field, time_field >>, << time_field, subject_id_field >>)

\* a source holding only the first mandatory field: the second is appended
\* after it and the table is returned
C12_SuffixReturned ==
    /\ NoValidationError
    /\ kw.do_add_missing_mandatory_fields /\ ~kw.do_reorder_columns
    /\ Columns(call.df.cols) = << subject_id_field >>
    /\ Columns(frame) = << subject_id_field, time_field >>
    /\ ret.status = "ok"

====
